---- MODULE Spec2Model ----
(***************************************************************************)
(* Model of src/main.py: an interactive reporting utility that loads       *)
(* employee records from a ';'-delimited file, prints the department ->    *)
(* team hierarchy, computes a per-department salary summary, prints it as  *)
(* an aligned table and saves it to a ';'-delimited file.                  *)
(*                                                                         *)
(* Text is modelled as what Python's str is: a sequence of Unicode code    *)
(* points.  len() is Len, string comparison is lexicographic comparison    *)
(* of code points, int() parses decimal digits, str() of an int produces   *)
(* decimal digits, str() of a float produces its shortest repr.            *)
(* Literal messages of the program (the menu, the prompts, the error       *)
(* texts) are modelled as named tokens, computed text as code points.      *)
(***************************************************************************)
EXTENDS Integers, Sequences, FiniteSets, TLC

VARIABLES
    input,              \* the input file: whether it exists, and its parsed rows
    pc,                 \* position of main(): "start", "menu", "done", "crashed"
    data,               \* main.data: the loaded records
    department_report,  \* main.department_report: None or Some(report)
    choice,             \* the latest menu input
    out,                \* lines written to stdout by the latest step, in order
    called,             \* functions the latest step called, in order
    err,                \* the uncaught exception that ended main(), or "none"
    disk                \* the destination file last opened for writing: None or Some

vars == <<input, pc, data, department_report, choice, out, called, err, disk>>

(***************************************************************************)
(* Bounds and input alphabets                                              *)
(***************************************************************************)
MaxRecords == 3

\* department names "B" and "AB": lexicographic order differs from both
\* length order and from the order of the last character
DepartmentNames == { <<66>>, <<65, 66>> }
\* team names "Y", "X"
TeamNames == { <<89>>, <<88>> }
\* salary texts "9", "10" (numeric order differs from text order) and "x"
SalaryTexts == { <<57>>, <<49, 48>>, <<120>> }
\* what the user types at the report-name prompt: "" or "r"
FileNameEntries == { <<>>, <<114>> }
\* menu inputs that are none of '1', '2', '3', 'exit'
OtherChoices == { "4" }

EmployeeRecords ==
    [Department : DepartmentNames, Team : TeamNames, Salary : SalaryTexts]

RowSequences == UNION { [1..n -> EmployeeRecords] : n \in 0..MaxRecords }

(***************************************************************************)
(* Python values                                                           *)
(***************************************************************************)
None == <<>>
Some(v) == <<v>>

\* a line of computed text, and a line that is a literal of the program
Line(text) == [msg |-> "text", text |-> text]
Msg(m) == [msg |-> m, text |-> <<>>]

RECURSIVE Repeat(_, _)
Repeat(c, n) == IF n <= 0 THEN <<>> ELSE <<c>> \o Repeat(c, n - 1)

\* str < str: lexicographic on code points, a proper prefix is smaller
RECURSIVE str_less(_, _)
str_less(a, b) ==
    IF b = <<>> THEN FALSE
    ELSE IF a = <<>> THEN TRUE
    ELSE IF Head(a) # Head(b) THEN Head(a) < Head(b)
    ELSE str_less(Tail(a), Tail(b))

\* sorted(set of str)
RECURSIVE sorted(_)
sorted(S) ==
    IF S = {} THEN <<>>
    ELSE LET m == CHOOSE x \in S : \A y \in S \ {x} : str_less(x, y)
         IN <<m>> \o sorted(S \ {m})

\* int(text) succeeds: over the alphabet used here, a non-empty run of digits
is_int_text(s) == s # <<>> /\ \A i \in DOMAIN s : s[i] \in 48..57

\* int(text)
RECURSIVE int_of(_)
int_of(s) ==
    IF s = <<>> THEN 0
    ELSE 10 * int_of(SubSeq(s, 1, Len(s) - 1)) + (s[Len(s)] - 48)

\* str(n) for an int n >= 0
RECURSIVE int_str(_)
int_str(n) ==
    IF n < 10 THEN <<48 + n>> ELSE int_str(n \div 10) \o <<48 + (n % 10)>>

RECURSIVE sum(_)
sum(s) == IF s = <<>> THEN 0 ELSE Head(s) + sum(Tail(s))

min(s) == CHOOSE m \in { s[i] : i \in DOMAIN s } : \A i \in DOMAIN s : m <= s[i]
max(s) == CHOOSE m \in { s[i] : i \in DOMAIN s } : \A i \in DOMAIN s : m >= s[i]

RECURSIVE gcd(_, _)
gcd(a, b) == IF b = 0 THEN a ELSE gcd(b, a % b)

\* p // q: the quotient rounded down where p / q was meant
floor_div(p, q) == [num |-> p \div q, den |-> 1]

\* p / q, true division of ints.  The float result is kept as the fraction in
\* lowest terms whose nearest double it is.
true_div(p, q) == LET g == gcd(p, q) IN [num |-> p \div g, den |-> q \div g]

\* repr of the double nearest to n/3, n not a multiple of 3: the integer
\* part, '.', then k copies of the repeating digit and one last digit
\* (CPython's shortest round-trip repr)
ThirdsRepr ==
    1 :> <<15, 3>> @@ 2 :> <<15, 6>> @@ 4 :> <<15, 3>> @@ 5 :> <<15, 7>> @@
    7 :> <<15, 5>> @@ 8 :> <<15, 5>> @@ 10 :> <<15, 5>> @@ 11 :> <<15, 5>> @@
    13 :> <<14, 3>> @@ 14 :> <<14, 7>> @@ 16 :> <<14, 3>> @@ 17 :> <<14, 7>> @@
    19 :> <<14, 3>> @@ 20 :> <<14, 7>> @@ 22 :> <<14, 3>> @@ 23 :> <<14, 7>> @@
    25 :> <<14, 4>> @@ 26 :> <<14, 6>> @@ 28 :> <<14, 4>> @@ 29 :> <<14, 6>> @@
    31 :> <<14, 4>> @@ 32 :> <<14, 6>>

\* the digits after the point of r/den, r < den, den dividing a power of 10
RECURSIVE frac_digits(_, _)
frac_digits(r, den) ==
    IF r = 0 THEN <<>>
    ELSE <<48 + ((10 * r) \div den)>> \o frac_digits((10 * r) % den, den)

\* str(x) of a float x >= 0
float_str(x) ==
    IF x.den = 3
    THEN int_str(x.num \div 3) \o <<46>>
         \o Repeat(IF x.num % 3 = 1 THEN 51 ELSE 54, ThirdsRepr[x.num][1])
         \o <<48 + ThirdsRepr[x.num][2]>>
    ELSE int_str(x.num \div x.den) \o <<46>>
         \o (IF x.num % x.den = 0 THEN <<48>>
             ELSE frac_digits(x.num % x.den, x.den))

RECURSIVE join(_, _)
join(parts, sep) ==
    IF parts = <<>> THEN <<>>
    ELSE IF Len(parts) = 1 THEN parts[1]
    ELSE parts[1] \o sep \o join(Tail(parts), sep)

RECURSIVE concat(_)
concat(seqs) == IF seqs = <<>> THEN <<>> ELSE Head(seqs) \o concat(Tail(seqs))

(***************************************************************************)
(* display_hierarchy                                                       *)
(***************************************************************************)
\* teams[department] = {team}: overwrites what the department already had
dict_set_team(teams, department, team) ==
    [d \in DOMAIN teams \cup {department} |->
        IF d = department THEN {team} ELSE teams[d]]

\* lines 53-56: add the team to the department's set, creating it if absent
dict_add_team(teams, department, team) ==
    [d \in DOMAIN teams \cup {department} |->
        IF d = department
        THEN (IF department \in DOMAIN teams
              THEN teams[department] \cup {team} ELSE {team})
        ELSE teams[d]]

\* lines 47-56: the loop over data that fills departments and teams
RECURSIVE hierarchy_scan(_)
hierarchy_scan(rows) ==
    IF rows = <<>> THEN [departments |-> {}, teams |-> [d \in {} |-> {}]]
    ELSE LET prev == hierarchy_scan(SubSeq(rows, 1, Len(rows) - 1))
             entry == rows[Len(rows)]
         IN [departments |-> prev.departments \cup {entry.Department},
             teams |-> dict_add_team(prev.teams, entry.Department, entry.Team)]

\* lines 60-63: what is printed for one department
department_block(h, department) ==
    <<Line(<<45, 32>> \o department)>> \o
    (IF department \in DOMAIN h.teams
     THEN LET ts == sorted(h.teams[department])
          IN [i \in 1..Len(ts) |-> Line(<<32, 32, 45, 32>> \o ts[i])]
     ELSE <<>>)

\* the lines display_hierarchy(data) prints
display_hierarchy(rows) ==
    LET h == hierarchy_scan(rows)
        ds == sorted(h.departments)
    IN <<Msg("hierarchy_title")>> \o
       concat([i \in 1..Len(ds) |-> department_block(h, ds[i])])

(***************************************************************************)
(* gen_department_report                                                   *)
(***************************************************************************)
\* the departments in the order of their first record
RECURSIVE first_seen_order(_)
first_seen_order(rows) ==
    IF rows = <<>> THEN <<>>
    ELSE LET prev == first_seen_order(SubSeq(rows, 1, Len(rows) - 1))
             d == rows[Len(rows)].Department
         IN IF \E i \in DOMAIN prev : prev[i] = d THEN prev ELSE Append(prev, d)

\* lines 74-79: the set of departments of data, iterated in sorted order
department_order(rows) ==
    sorted({ rows[i].Department : i \in DOMAIN rows })

\* line 81: int() raises ValueError on a salary that is no integer
gen_raises(rows) == \E i \in DOMAIN rows : ~is_int_text(rows[i].Salary)

\* lines 80-91: the report entry of one department
report_entry(rows, depart) ==
    LET depart_data == SelectSeq(rows, LAMBDA ent : ent.Department = depart)
        salaries == [i \in 1..Len(depart_data) |-> int_of(depart_data[i].Salary)]
        min_salary == min(salaries)
        max_salary == max(salaries)
    IN [Department |-> depart,
        Headcount |-> Len(depart_data),
        SalaryRange |-> int_str(min_salary) \o <<32, 8211, 32>> \o int_str(max_salary),
        AverageSalary |-> true_div(sum(salaries), Len(salaries))]

\* the list gen_department_report(data) returns when it does not raise
gen_department_report(rows) ==
    LET ds == department_order(rows)
    IN [i \in 1..Len(ds) |-> report_entry(rows, ds[i])]

(***************************************************************************)
(* print_department_report                                                 *)
(***************************************************************************)
\* report[0].keys(): the four field names, as code points
table_headers ==
    << <<1044, 1077, 1087, 1072, 1088, 1090, 1072, 1084, 1077, 1085, 1090>>,
       <<1063, 1080, 1089, 1083, 1077, 1085, 1085, 1086, 1089, 1090, 1100>>,
       <<1042, 1080, 1083, 1082, 1072, 32, 1079, 1072, 1088, 1087, 1083, 1072, 1090>>,
       <<1057, 1088, 1077, 1076, 1085, 1103, 1103, 32, 1079, 1072, 1088, 1087,
         1083, 1072, 1090, 1072>> >>

Columns == DOMAIN table_headers

\* entry[header] of column c, with its Python type
cell(entry, c) ==
    CASE c = 1 -> [type |-> "str", text |-> entry.Department]
      [] c = 2 -> [type |-> "int", text |-> int_str(entry.Headcount)]
      [] c = 3 -> [type |-> "str", text |-> entry.SalaryRange]
      [] c = 4 -> [type |-> "float", text |-> float_str(entry.AverageSalary)]

max_of(S) == CHOOSE m \in S : \A x \in S : m >= x

\* one width for the whole table: the widest header or value of any column
table_width(report, c) ==
    max_of({ Len(table_headers[k]) : k \in Columns } \cup
           { Len(cell(report[i], k).text) : i \in DOMAIN report, k \in Columns })

\* lines 111-113: the width of column c
column_width(report, c) ==
    max_of({ Len(table_headers[c]) } \cup
           { Len(cell(report[i], c).text) : i \in DOMAIN report })

\* f'{item:{width}}': str is aligned to the left, int and float to the right
format_width(v, width) ==
    IF v.type = "str"
    THEN v.text \o Repeat(32, width - Len(v.text))
    ELSE Repeat(32, width - Len(v.text)) \o v.text

\* lines 108-126: header row, separator row, one row per entry
table_lines(report) ==
    LET w == [c \in Columns |-> column_width(report, c)]
        header == concat([c \in Columns |->
            format_width([type |-> "str", text |-> table_headers[c]], w[c])
            \o <<32, 124, 32>>])
        separator == concat([c \in Columns |-> Repeat(45, w[c]) \o <<32, 124, 32>>])
        row(i) == concat([c \in Columns |->
            format_width(cell(report[i], c), w[c]) \o <<32, 124, 32>>])
    IN <<Line(header), Line(separator)>> \o [i \in DOMAIN report |-> Line(row(i))]

\* the empty-report message followed by the table all the same
print_without_return(report) == <<Msg("report_is_empty")>> \o table_lines(report)

\* the lines print_department_report(report) prints
print_department_report(report) ==
    IF report = <<>> THEN <<Msg("report_is_empty")>> ELSE table_lines(report)

(***************************************************************************)
(* save_report_to_csv                                                      *)
(***************************************************************************)
\* lines 137-142: the header line and one line per entry, fields joined by ';'
csv_lines(report) ==
    <<join(table_headers, <<59>>)>> \o
    [i \in DOMAIN report |->
        join([c \in Columns |-> cell(report[i], c).text], <<59>>)]

(***************************************************************************)
(* main                                                                    *)
(***************************************************************************)
InputFiles ==
    { [exists |-> FALSE, rows |-> <<>>] } \cup
    { [exists |-> TRUE, rows |-> r] : r \in RowSequences }

\* lines 157-160: nothing read yet, department_report = None
Init ==
    /\ input \in InputFiles
    /\ pc = "start"
    /\ data = <<>>
    /\ department_report = None
    /\ choice = ""
    /\ out = <<>>
    /\ called = <<>>
    /\ err = "none"
    /\ disk = None

\* lines 168-174: the menu is printed and an input is read
MenuPrompt == <<Msg("menu"), Msg("prompt_choice")>>

\* '../report.csv'
DefaultReportName == <<46, 46, 47, 114, 101, 112, 111, 114, 116, 46, 99, 115, 118>>

\* the except branch prints the error and falls through to the menu loop
LoadWithoutReturn ==
    /\ pc = "start"
    /\ called' = <<"read_data">>
    /\ pc' = "menu"
    /\ data' = input.rows
    /\ out' = IF input.exists THEN <<Msg("prompt_data_file")>>
              ELSE <<Msg("prompt_data_file"), Msg("FileNotFoundError")>>
    /\ UNCHANGED <<input, department_report, choice, err, disk>>

\* lines 157-166: read_data(filename); FileNotFoundError is printed and
\* main returns
Load ==
    /\ pc = "start"
    /\ called' = <<"read_data">>
    /\ IF input.exists
       THEN /\ data' = input.rows
            /\ pc' = "menu"
            /\ out' = <<Msg("prompt_data_file")>>
       ELSE /\ pc' = "done"
            /\ out' = <<Msg("prompt_data_file"), Msg("FileNotFoundError")>>
            /\ UNCHANGED data
    /\ UNCHANGED <<input, department_report, choice, err, disk>>

\* lines 175-176: choice '1'
ShowHierarchy ==
    /\ pc = "menu"
    /\ choice' = "1"
    /\ out' = MenuPrompt \o display_hierarchy(data)
    /\ called' = <<"display_hierarchy">>
    /\ UNCHANGED <<input, pc, data, department_report, err, disk>>

\* lines 177-179: choice '2'
ShowReport ==
    /\ pc = "menu"
    /\ choice' = "2"
    /\ IF gen_raises(data)
       THEN /\ pc' = "crashed"
            /\ err' = "ValueError"
            /\ out' = MenuPrompt
            /\ called' = <<"gen_department_report">>
            /\ UNCHANGED department_report
       ELSE /\ department_report' = Some(gen_department_report(data))
            /\ out' = MenuPrompt \o print_department_report(gen_department_report(data))
            /\ called' = <<"gen_department_report", "print_department_report">>
            /\ UNCHANGED <<pc, err>>
    /\ UNCHANGED <<input, data, disk>>

\* lines 136-142 and 185-186 / 192-193: save_report_to_csv(report, out_filename)
\* and the message after it.  open() raises OSError when the destination
\* cannot be opened; report[0] raises IndexError, after the file was opened
\* for writing, when the report is empty.
Saving(report, out_filename, writable, calls) ==
    /\ called' = calls \o <<"save_report_to_csv">>
    /\ IF ~writable
       THEN /\ pc' = "crashed"
            /\ err' = "OSError"
            /\ out' = MenuPrompt \o <<Msg("prompt_report_name")>>
            /\ UNCHANGED disk
       ELSE IF report = <<>>
       THEN /\ pc' = "crashed"
            /\ err' = "IndexError"
            /\ out' = MenuPrompt \o <<Msg("prompt_report_name")>>
            /\ disk' = Some([name |-> out_filename, lines |-> <<>>])
       ELSE /\ disk' = Some([name |-> out_filename, lines |-> csv_lines(report)])
            /\ out' = MenuPrompt \o <<Msg("prompt_report_name"),
                                      [msg |-> "report_saved", text |-> out_filename]>>
            /\ UNCHANGED <<pc, err>>

\* lines 188-193: the branch that computes the report, whatever is cached
ComputeAndSave(entry, writable) ==
    LET out_filename == IF entry = <<>> THEN DefaultReportName ELSE entry
    IN  IF gen_raises(data)
        THEN /\ pc' = "crashed"
             /\ err' = "ValueError"
             /\ out' = MenuPrompt \o <<Msg("prompt_report_name")>>
             /\ called' = <<"gen_department_report">>
             /\ UNCHANGED <<department_report, disk>>
        ELSE /\ department_report' = Some(gen_department_report(data))
             /\ Saving(gen_department_report(data), out_filename, writable,
                       <<"gen_department_report">>)

\* choice '3' with the cache-or-compute test left out
SaveAlwaysComputes(entry, writable) ==
    /\ pc = "menu"
    /\ choice' = "3"
    /\ ComputeAndSave(entry, writable)
    /\ UNCHANGED <<input, data>>

\* lines 180-193: choice '3'
SaveReport(entry, writable) ==
    /\ pc = "menu"
    /\ choice' = "3"
    /\ IF department_report # None
       THEN /\ UNCHANGED department_report
            /\ Saving(department_report[1],
                      IF entry = <<>> THEN DefaultReportName ELSE entry,
                      writable, <<>>)
       ELSE ComputeAndSave(entry, writable)
    /\ UNCHANGED <<input, data>>

\* lines 194-195: choice 'exit'
Exit ==
    /\ pc = "menu"
    /\ choice' = "exit"
    /\ pc' = "done"
    /\ out' = MenuPrompt
    /\ called' = <<>>
    /\ UNCHANGED <<input, data, department_report, err, disk>>

\* lines 196-197: any other input
InvalidChoice(c) ==
    /\ pc = "menu"
    /\ choice' = c
    /\ out' = MenuPrompt \o <<Msg("invalid_choice")>>
    /\ called' = <<>>
    /\ UNCHANGED <<input, pc, data, department_report, err, disk>>

Next ==
    \/ Load
    \/ ShowHierarchy
    \/ ShowReport
    \/ \E entry \in FileNameEntries, writable \in BOOLEAN : SaveReport(entry, writable)
    \/ Exit
    \/ \E c \in OtherChoices : InvalidChoice(c)

Spec == Init /\ [][Next]_vars

(***************************************************************************)
(* Properties.  They are stated from the records in data and the text in   *)
(* out, with their own definitions of order, counting and position.        *)
(***************************************************************************)
RECURSIVE SetSum(_, _)
SetSum(S, f) ==
    IF S = {} THEN 0
    ELSE LET x == CHOOSE y \in S : TRUE IN f[x] + SetSum(S \ {x}, f)

\* a strictly before b in lexicographic order: they agree before some
\* position k, where a has ended or holds the smaller code point
LexLess(a, b) ==
    \E k \in 1..Len(b) :
        /\ k <= Len(a) + 1
        /\ \A j \in 1..(k - 1) : a[j] = b[j]
        /\ (k = Len(a) + 1 \/ a[k] < b[k])

DeptsOf(rows) == { rows[i].Department : i \in DOMAIN rows }
RowsOf(rows, d) == { i \in DOMAIN rows : rows[i].Department = d }
TeamsOf(rows, d) == { rows[i].Team : i \in RowsOf(rows, d) }
SalaryOf(rows, i) == int_of(rows[i].Salary)
Called(f) == \E i \in DOMAIN called : called[i] = f
Report == department_report[1]

\* C1: every entry of the computed report has Headcount = the number of
\* records of its department, SalaryRange = 'min - max' with min and max the
\* smallest and largest salary of exactly those records (so N - N for a
\* single record), and AverageSalary = their sum / Headcount, unrounded.
C1_EntryStatistics ==
    department_report # None =>
        \A k \in DOMAIN Report :
            LET e == Report[k]
                idx == RowsOf(data, e.Department)
                total == SetSum(idx, [i \in idx |-> SalaryOf(data, i)])
            IN /\ e.Headcount = Cardinality(idx)
               /\ e.Headcount >= 1
               /\ \E lo \in idx, hi \in idx :
                    /\ \A i \in idx : /\ SalaryOf(data, lo) <= SalaryOf(data, i)
                                      /\ SalaryOf(data, i) <= SalaryOf(data, hi)
                    /\ e.SalaryRange = int_str(SalaryOf(data, lo))
                                       \o <<32, 8211, 32>> \o int_str(SalaryOf(data, hi))
               /\ e.AverageSalary.den > 0
               /\ e.AverageSalary.num * e.Headcount = total * e.AverageSalary.den

\* a report entry over two records with salaries 9 and 10: range '9 - 10',
\* mean 19/2, next to a single-record department with range '9 - 9'
C1_Witness ==
    /\ department_report # None
    /\ \E k \in DOMAIN Report :
        /\ Report[k].Headcount = 2
        /\ Report[k].SalaryRange = <<57, 32, 8211, 32, 49, 48>>
        /\ Report[k].AverageSalary = [num |-> 19, den |-> 2]
    /\ \E k \in DOMAIN Report :
        /\ Report[k].Headcount = 1
        /\ Report[k].SalaryRange = <<57, 32, 8211, 32, 57>>

\* the rows of data rearranged by the permutation p
Permuted(rows, p) == [i \in DOMAIN rows |-> rows[p[i]]]
Reorderings(S) == { p \in [S -> S] : \A a \in S : \E b \in S : p[b] = a }

\* C2: the report has exactly one entry per distinct department of data,
\* none missing and none extra, in strictly ascending lexicographic order of
\* department name, and any reordering of the rows gives the same report.
C2_OnePerDepartmentSorted ==
    department_report # None =>
        /\ Len(Report) = Cardinality(DeptsOf(data))
        /\ { Report[k].Department : k \in DOMAIN Report } = DeptsOf(data)
        /\ \A j \in DOMAIN Report, k \in DOMAIN Report :
              j < k => LexLess(Report[j].Department, Report[k].Department)
        /\ \A p \in Reorderings(DOMAIN data) :
              gen_department_report(Permuted(data, p)) = Report

\* three records whose first is of department "B" and whose others are of
\* "AB": the rows are not in department order
C2_Witness ==
    /\ department_report # None
    /\ Len(data) = 3
    /\ data[1].Department = <<66>>
    /\ data[2].Department = <<65, 66>>
    /\ data[3].Department = <<65, 66>>
    /\ Len(Report) = 2

\* the number of lines of one department's block, and where a block starts
BlockSize(rows, d) == 1 + Cardinality(TeamsOf(rows, d))
BlockStart(rows, d) ==
    1 + SetSum({ d2 \in DeptsOf(rows) : LexLess(d2, d) },
               [x \in DeptsOf(rows) |-> BlockSize(rows, x)])
TeamRank(rows, d, t) == Cardinality({ t2 \in TeamsOf(rows, d) : LexLess(t2, t) })

\* C3: after the title, display_hierarchy prints one '- department' line per
\* distinct department in ascending order, each followed at once by one
\* '  - team' line per distinct team of that department, ascending, and
\* prints nothing else.
C3_HierarchyLines ==
    (pc = "menu" /\ choice = "1") =>
        LET body == SubSeq(out, 4, Len(out))
        IN /\ SubSeq(out, 1, 2) = MenuPrompt
           /\ out[3] = Msg("hierarchy_title")
           /\ Len(body) = SetSum(DeptsOf(data), [d \in DeptsOf(data) |-> BlockSize(data, d)])
           /\ \A d \in DeptsOf(data) :
                /\ body[BlockStart(data, d)] = Line(<<45, 32>> \o d)
                /\ \A t \in TeamsOf(data, d) :
                     body[BlockStart(data, d) + 1 + TeamRank(data, d, t)]
                        = Line(<<32, 32, 45, 32>> \o t)

\* records B/X, AB/Y, AB/X in that order: departments and teams both arrive
\* out of order, and team X occurs in both departments
C3_Witness ==
    /\ pc = "menu" /\ choice = "1"
    /\ Len(data) = 3
    /\ data[1].Department = <<66>> /\ data[1].Team = <<88>>
    /\ data[2].Department = <<65, 66>> /\ data[2].Team = <<89>>
    /\ data[3].Department = <<65, 66>> /\ data[3].Team = <<88>>

\* C4: a non-integer salary makes the report and save actions report an
\* InvalidData error and return to the menu with the session state intact.
C4_InvalidDataKeepsSession ==
    (choice \in {"2", "3"} /\ gen_raises(data)) =>
        /\ pc = "menu"
        /\ err = "none"
        /\ data = input.rows
        /\ department_report = None

\* C5: a destination that cannot be opened aborts only the save action: the
\* session is back at the menu and nothing says the report was saved.
C5_WriteFailureKeepsSession ==
    (choice = "3" /\ Called("save_report_to_csv") /\ err = "OSError") =>
        /\ pc = "menu"
        /\ \A i \in DOMAIN out : out[i].msg # "report_saved"

\* C6: with a missing input file main prints the error and returns: the
\* menu is never printed, no choice is read, no action runs.
C6_MissingFileEndsSession ==
    ~input.exists =>
        /\ pc \in {"start", "done"}
        /\ pc = "done" =>
              /\ out = <<Msg("prompt_data_file"), Msg("FileNotFoundError")>>
              /\ called = <<"read_data">>
        /\ \A i \in DOMAIN out : out[i].msg \notin {"menu", "prompt_choice"}
        /\ choice = ""
        /\ department_report = None
        /\ disk = None
        /\ err = "none"

C6_Witness == ~input.exists /\ pc = "done"

\* C7: a save step calls the aggregator exactly when no report is cached,
\* and then caches what it computed; with a report cached (by the report
\* action or an earlier save) it leaves the cache alone, does not call the
\* aggregator, and writes the cached report.
C7_SaveReusesCache ==
    [][ /\ (pc = "menu" /\ choice' = "2" /\ pc' = "menu") =>
            department_report' = Some(gen_department_report(data))
        /\ (pc = "menu" /\ choice' = "3") =>
            /\ department_report # None =>
                /\ called' = <<"save_report_to_csv">>
                /\ department_report' = department_report
                /\ pc' = "menu" => disk'[1].lines = csv_lines(department_report[1])
            /\ department_report = None =>
                /\ called'[1] = "gen_department_report"
                /\ err' # "ValueError" =>
                     department_report' = Some(gen_department_report(data))
      ]_vars

\* a save that wrote the cached, non-empty report without computing it
C7_Witness ==
    /\ pc = "menu" /\ choice = "3"
    /\ called = <<"save_report_to_csv">>
    /\ department_report # None /\ Len(Report) = 2
    /\ disk # None /\ Len(disk[1].lines) = 3

\* the width the table gives column c: the longest of the header and the
\* values of that column alone
WidthOf(c) ==
    LET lens == { Len(table_headers[c]) } \cup
                { Len(cell(Report[i], c).text) : i \in DOMAIN Report }
    IN CHOOSE w \in lens : \A x \in lens : x <= w
\* column c occupies WidthOf(c) characters after the columns before it,
\* each of which is followed by the 3 characters ' | '
FieldOf(line, c) ==
    LET start == SetSum(1..(c - 1), [k \in Columns |-> WidthOf(k) + 3])
    IN SubSeq(line.text, start + 1, start + WidthOf(c))
PadRight(t, w) == t \o Repeat(32, w - Len(t))
PadLeft(t, w) == Repeat(32, w - Len(t)) \o t

\* the table printed for a non-empty report, with the cells of the columns
\* in LeftPadded padded on the left and all others on the right
TableIs(LeftPadded) ==
    (pc = "menu" /\ choice = "2" /\ Report # <<>>) =>
        /\ SubSeq(out, 1, 2) = MenuPrompt
        /\ Len(out) = 4 + Len(Report)
        /\ \A c \in Columns :
            /\ FieldOf(out[3], c) = PadRight(table_headers[c], WidthOf(c))
            /\ FieldOf(out[4], c) = Repeat(45, WidthOf(c))
            /\ \A i \in DOMAIN Report :
                 FieldOf(out[4 + i], c) =
                    IF c \in LeftPadded
                    THEN PadLeft(cell(Report[i], c).text, WidthOf(c))
                    ELSE PadRight(cell(Report[i], c).text, WidthOf(c))

\* C8 as stated: header row, dashes, one row per entry in order, every
\* column as wide as its longest header or value, and every cell, the int
\* Headcount and the float AverageSalary included, padded on the right.
C8_AllCellsRightPadded == TableIs({})

\* C8 amended: the same table, but the cells of the numeric columns
\* (Headcount, AverageSalary) are padded on the left, the value ending at
\* the column's right edge; headers and text cells are padded on the right.
C8_TextRightNumbersLeftPadded == TableIs({2, 4})

\* a one-entry table whose average 9.333333333333334 or 9.666666666666666 is
\* longer than its header, so the column is as wide as the value, while
\* Headcount '3' is shorter than its header and gets padding
C8_Witness ==
    /\ pc = "menu" /\ choice = "2"
    /\ Len(Report) = 1
    /\ Report[1].AverageSalary.den = 3
    /\ WidthOf(4) = 17 /\ WidthOf(2) = 11

\* C9: for an empty report print_department_report prints the empty-report
\* message and nothing else.
C9_EmptyReportMessageOnly ==
    (pc = "menu" /\ choice = "2" /\ Report = <<>>) =>
        out = MenuPrompt \o <<Msg("report_is_empty")>>

C9_Witness ==
    /\ pc = "menu" /\ choice = "2"
    /\ data = <<>>
    /\ department_report = Some(<<>>)
    /\ Len(out) = 3

\* C10: save_report_to_csv is only ever called with a non-empty report, and a
\* destination that was opened for writing holds a header line and data lines.
C10_WriterGetsNonEmptyReport ==
    /\ Called("save_report_to_csv") =>
          (department_report # None /\ Report # <<>>)
    /\ disk # None => Len(disk[1].lines) >= 2

====
